---- MODULE Spec2Model ----
(***************************************************************************)
(* Order execution engine: admission (POST /api/orders/execute), the       *)
(* BullMQ order worker with retry, the DEX aggregator's quote selection,   *)
(* the Redis cache service and the WebSocket status stream.                *)
(***************************************************************************)
EXTENDS Integers, Sequences, FiniteSets, TLC

(***************************************************************************)
(* Bounds of the model                                                     *)
(***************************************************************************)
\* largest output quantity a venue quotes
MaxOut == 3
\* largest price impact a venue quotes (in tenths of a percent)
MaxImpact == 1
\* orders admitted in the worker and stream specifications
MaxOrders == 1
\* orders admitted in the worker-pool specification
MaxPoolOrders == 2
\* submissions handled in the admission specification
MaxSubmits == 1
\* submissions handled in the rate-limit specification, beyond maxRequests
MaxOverCap == 2
\* WebSocket connections opened
MaxConns == 2
\* persistence calls that fail in the fault specification
MaxDbFaults == 2
\* status updates requested of one order in the status-update specification
MaxUpdates == 2
\* worker-pool size the worker is run with (config.queue.maxConcurrentOrders,
\* MAX_CONCURRENT_ORDERS, 10 when unset)
maxConcurrentOrders == 1
\* per-owner cap the rate limit is run with (config.rateLimit.maxRequests,
\* 100 in the source)
maxRequests == 3

(***************************************************************************)
(* Program constants (config)                                              *)
(***************************************************************************)
\* config.retry.maxAttempts
maxAttempts == 3
\* config.retry.backoffMs
backoffMs == 1000
\* config.retry.backoffMultiplier
backoffMultiplier == 2

(***************************************************************************)
(* Enumerations of types/index.ts                                          *)
(***************************************************************************)
PENDING == "pending"
ROUTING == "routing"
BUILDING == "building"
SUBMITTED == "submitted"
CONFIRMED == "confirmed"
FAILED == "failed"
OrderStatus == {PENDING, ROUTING, BUILDING, SUBMITTED, CONFIRMED, FAILED}

MARKET == "MARKET"
LIMIT == "LIMIT"
SNIPER == "SNIPER"
OrderType == {MARKET, LIMIT, SNIPER}

RAYDIUM == "RAYDIUM"
METEORA == "METEORA"
DEXPlatform == {RAYDIUM, METEORA}

(***************************************************************************)
(* Venue quotes.  A venue's getQuote either rejects (ok = FALSE) or        *)
(* resolves with a DEXQuote.                                               *)
(***************************************************************************)
NoQuote(d) == [ok |-> FALSE, dex |-> d, outputAmount |-> 0, priceImpact |-> 0]

DEXQuote(d) ==
    [ok : {TRUE}, dex : {d}, outputAmount : 0..MaxOut, priceImpact : 0..MaxImpact]

getQuote(d) == {NoQuote(d)} \cup DEXQuote(d)

(***************************************************************************)
(* DEXAggregator.selectBestQuote.  kind = "throw" is an exception leaving  *)
(* the function: a BigInt division by zero in the percentBetter            *)
(* computation, or the final fallback throw.                               *)
(***************************************************************************)
Selected(q, why) ==
    [kind |-> "ok", bestQuote |-> q, selectedDex |-> q.dex, reason |-> why]

Thrown(msg) ==
    [kind |-> "throw", bestQuote |-> NoQuote(RAYDIUM), selectedDex |-> "none",
     reason |-> msg]

selectBestQuote_outputFlipped(raydiumQuote, meteoraQuote) ==
    IF raydiumQuote.ok /\ ~meteoraQuote.ok
    THEN Selected(raydiumQuote, "Only Raydium quote available")
    ELSE IF meteoraQuote.ok /\ ~raydiumQuote.ok
    THEN Selected(meteoraQuote, "Only Meteora quote available")
    ELSE IF raydiumQuote.ok /\ meteoraQuote.ok
    THEN IF raydiumQuote.outputAmount < meteoraQuote.outputAmount
         THEN Selected(raydiumQuote, "Raydium offers better output")
         ELSE IF meteoraQuote.outputAmount < raydiumQuote.outputAmount
         THEN Selected(meteoraQuote, "Meteora offers better output")
         ELSE IF raydiumQuote.priceImpact < meteoraQuote.priceImpact
         THEN Selected(raydiumQuote, "Equal output, but Raydium has lower price impact")
         ELSE Selected(meteoraQuote, "Equal output, but Meteora has lower price impact")
    ELSE Thrown("No valid quotes available")

selectBestQuote_impactFlipped(raydiumQuote, meteoraQuote) ==
    IF raydiumQuote.ok /\ ~meteoraQuote.ok
    THEN Selected(raydiumQuote, "Only Raydium quote available")
    ELSE IF meteoraQuote.ok /\ ~raydiumQuote.ok
    THEN Selected(meteoraQuote, "Only Meteora quote available")
    ELSE IF raydiumQuote.ok /\ meteoraQuote.ok
    THEN IF raydiumQuote.outputAmount > meteoraQuote.outputAmount
         THEN IF meteoraQuote.outputAmount = 0
              THEN Thrown("Division by zero")
              ELSE Selected(raydiumQuote, "Raydium offers better output")
         ELSE IF meteoraQuote.outputAmount > raydiumQuote.outputAmount
         THEN IF raydiumQuote.outputAmount = 0
              THEN Thrown("Division by zero")
              ELSE Selected(meteoraQuote, "Meteora offers better output")
         ELSE IF raydiumQuote.priceImpact > meteoraQuote.priceImpact
         THEN Selected(raydiumQuote, "Equal output, but Raydium has lower price impact")
         ELSE Selected(meteoraQuote, "Equal output, but Meteora has lower price impact")
    ELSE Thrown("No valid quotes available")

selectBestQuote(raydiumQuote, meteoraQuote) ==
    IF raydiumQuote.ok /\ ~meteoraQuote.ok
    THEN Selected(raydiumQuote, "Only Raydium quote available")
    ELSE IF meteoraQuote.ok /\ ~raydiumQuote.ok
    THEN Selected(meteoraQuote, "Only Meteora quote available")
    ELSE IF raydiumQuote.ok /\ meteoraQuote.ok
    THEN IF raydiumQuote.outputAmount > meteoraQuote.outputAmount
         THEN IF meteoraQuote.outputAmount = 0
              THEN Thrown("Division by zero")
              ELSE Selected(raydiumQuote, "Raydium offers better output")
         ELSE IF meteoraQuote.outputAmount > raydiumQuote.outputAmount
         THEN IF raydiumQuote.outputAmount = 0
              THEN Thrown("Division by zero")
              ELSE Selected(meteoraQuote, "Meteora offers better output")
         ELSE IF raydiumQuote.priceImpact < meteoraQuote.priceImpact
         THEN Selected(raydiumQuote, "Equal output, but Raydium has lower price impact")
         ELSE Selected(meteoraQuote, "Equal output, but Meteora has lower price impact")
    ELSE Thrown("No valid quotes available")

(***************************************************************************)
(* A venue's getQuote rejects with new Error('<Venue> quote failed: ' +    *)
(* cause); the cause is 'Unknown error' when the value caught is not an    *)
(* Error.  String(error) of an Error is 'Error: ' + message.               *)
(***************************************************************************)
VenueName(d) == IF d = RAYDIUM THEN "Raydium" ELSE "Meteora"

QuoteFailed(d) == VenueName(d) \o " quote failed: " \o "Unknown error"

\* `${result.reason}` of a rejected venue call
Reason(result) == "Error: " \o QuoteFailed(result.dex)

\* Array.prototype.join on strings
RECURSIVE join(_, _)
join(parts, sep) ==
    IF parts = <<>> THEN ""
    ELSE IF Len(parts) = 1 THEN parts[1]
    ELSE parts[1] \o sep \o join(Tail(parts), sep)

\* the errors array of getBestQuote: one entry per venue that rejected
Errors(raydiumResult, meteoraResult) ==
    (IF raydiumResult.ok THEN <<>> ELSE <<"Raydium: " \o Reason(raydiumResult)>>)
    \o (IF meteoraResult.ok THEN <<>> ELSE <<"Meteora: " \o Reason(meteoraResult)>>)

getBestQuote_noDetail(raydiumResult, meteoraResult) ==
    IF ~raydiumResult.ok /\ ~meteoraResult.ok
    THEN Thrown("All DEX quotes failed")
    ELSE selectBestQuote(raydiumResult, meteoraResult)

(***************************************************************************)
(* DEXAggregator.getBestQuote up to the selection: both venues settle,     *)
(* 'All DEX quotes failed: ' with the joined venue errors is thrown when   *)
(* neither returned a quote, otherwise the result of selectBestQuote.      *)
(***************************************************************************)
getBestQuote(raydiumResult, meteoraResult) ==
    IF ~raydiumResult.ok /\ ~meteoraResult.ok
    THEN Thrown("All DEX quotes failed: "
                    \o join(Errors(raydiumResult, meteoraResult), "; "))
    ELSE selectBestQuote(raydiumResult, meteoraResult)


(***************************************************************************)
(* Amount strings.  Quantities travel as decimal strings; a string is a    *)
(* sequence of characters.  A missing (undefined) field and the empty      *)
(* string are both falsy and are both written <<>>.                        *)
(***************************************************************************)
Digits == <<"0", "1", "2", "3", "4", "5", "6", "7", "8", "9">>

DigitOf(c) == (CHOOSE i \in 1..10 : Digits[i] = c) - 1

RECURSIVE ParseDigits(_)
ParseDigits(s) ==
    IF s = <<>> THEN 0
    ELSE 10 * ParseDigits(SubSeq(s, 1, Len(s) - 1)) + DigitOf(s[Len(s)])

\* BigInt(string): "" is 0n, a leading "-" negates
BigInt(s) ==
    IF s = <<>> THEN 0
    ELSE IF Head(s) = "-" THEN 0 - ParseDigits(Tail(s))
    ELSE ParseDigits(s)

\* BigInt.prototype.toString for the quantities a venue quotes
toString(n) == <<Digits[n + 1]>>

\* JavaScript truthiness of a string: every non-empty string, "0" included
Truthy(s) == s # <<>>

(***************************************************************************)
(* State                                                                   *)
(***************************************************************************)
VARIABLES
    aggIn,             \* arguments of the getBestQuote call under test
    aggOut,            \* its result
    db,                \* orders table: order id -> row
    retry_logs,        \* retry_logs table: order id -> rows, oldest first
    routing_decisions, \* routing_decisions table: order id -> rows
    redisUp,           \* RedisCache.redis is not null
    redisStore,        \* order:{id} keys held by Redis
    inMemoryCache,     \* RedisCache.inMemoryCache
    rateCount,         \* ratelimit:{owner} keys of Redis: their count (0: no key)
    rateTtl,           \* whether the ratelimit:{owner} key has an expiry
    jobs,              \* BullMQ jobs of the orders queue: order id -> job
    waitList,          \* BullMQ wait list, head first
    swaps,             \* settlements the venues executed, per order
    published,         \* messages handed to broadcastUpdate, per order
    statusLog,         \* statuses stored in the orders table, per order, in order
    conns,             \* WebSocket connections
    wsConnections,     \* routes' wsConnections map: order id -> connections
    relayed,           \* events of an order passed to broadcastOrderUpdate so far
    nextId,            \* next order id (uuidv4)
    reply,             \* last HTTP response of POST /api/orders/execute
    submits,           \* requests POST /api/orders/execute has handled
    windowAdmits,      \* submissions admitted per owner in the current 60 s
    keyAdmits,         \* submissions admitted per owner against the current key
    dbFaults           \* calls to the database or the queue that have thrown

vars == <<aggIn, aggOut, db, retry_logs, routing_decisions, redisUp, redisStore,
          inMemoryCache, rateCount, rateTtl, jobs, waitList, swaps, published,
          statusLog, conns, wsConnections, relayed, nextId, reply, submits,
          windowAdmits, keyAdmits, dbFaults>>

aggVars == <<aggIn, aggOut>>
dbVars == <<db, retry_logs, routing_decisions, statusLog>>
cacheVars == <<redisUp, redisStore, inMemoryCache>>
rateVars == <<rateCount, rateTtl, windowAdmits, keyAdmits>>
queueVars == <<jobs, waitList>>
wsVars == <<conns, wsConnections, relayed>>
httpVars == <<nextId, reply, submits>>

Owners == {"default", "alice"}

EmptyMap == [x \in {} |-> 0]

Put(f, k, v) == [x \in DOMAIN f \cup {k} |-> IF x = k THEN v ELSE f[x]]

NoReply == [code |-> 0, orderId |-> 0, owner |-> "default",
            req |-> [type |-> "", side |-> "", inputToken |-> "", outputToken |-> "",
                     inputAmount |-> <<>>, outputAmount |-> <<>>]]

\* a connection: the socket (idle before the client connects, then open, then
\* closed), whether its handler is still at the await of the order lookup
\* (pending), whether the 'close' listener is registered (onClose), the
\* messages the client has received (recv), how many events had been
\* published for the order when the client subscribed (since) and, once the
\* awaited lookup has answered and the handler has not resumed yet, the status
\* it read (looked; "" for an order that was not found)
NoConn == [state |-> "idle", orderId |-> 0, pending |-> FALSE, onClose |-> FALSE,
           closedBy |-> "", recv |-> <<>>, since |-> 0, looked |-> <<>>]

InitRest ==
    /\ db = EmptyMap
    /\ retry_logs = EmptyMap
    /\ routing_decisions = EmptyMap
    /\ redisUp = TRUE
    /\ redisStore = EmptyMap
    /\ inMemoryCache = EmptyMap
    /\ rateCount = [u \in Owners |-> 0]
    /\ rateTtl = [u \in Owners |-> FALSE]
    /\ jobs = EmptyMap
    /\ waitList = <<>>
    /\ swaps = EmptyMap
    /\ published = EmptyMap
    /\ statusLog = EmptyMap
    /\ conns = [c \in 1..MaxConns |-> NoConn]
    /\ wsConnections = EmptyMap
    /\ relayed = EmptyMap
    /\ nextId = 1
    /\ reply = NoReply
    /\ submits = 0
    /\ windowAdmits = [u \in Owners |-> 0]
    /\ keyAdmits = [u \in Owners |-> 0]
    /\ dbFaults = 0

Init ==
    /\ aggIn = <<NoQuote(RAYDIUM), NoQuote(METEORA)>>
    /\ aggOut = Thrown("not called")
    /\ InitRest

(***************************************************************************)
(* RedisCache: orders (db/redis.ts)                                        *)
(***************************************************************************)
\* RedisCache.getOrder; getOk: the Redis GET did not throw
getOrder(orderId, getOk) ==
    IF redisUp /\ getOk
    THEN IF orderId \in DOMAIN redisStore
         THEN [found |-> TRUE, order |-> redisStore[orderId]]
         ELSE [found |-> FALSE, order |-> 0]
    ELSE IF orderId \in DOMAIN inMemoryCache
         THEN [found |-> TRUE, order |-> inMemoryCache[orderId]]
         ELSE [found |-> FALSE, order |-> 0]

\* RedisCache.setOrder; setOk: the Redis SETEX did not throw.  The pair of
\* stores after the call.
setOrder(stores, orderId, order, setOk) ==
    IF redisUp /\ setOk
    THEN [redis |-> Put(stores.redis, orderId, order), mem |-> stores.mem]
    ELSE [redis |-> stores.redis, mem |-> Put(stores.mem, orderId, order)]

Stores == [redis |-> redisStore, mem |-> inMemoryCache]

\* the 'error' handler of the Redis client: this.redis = null, for good
RedisError ==
    /\ redisUp
    /\ redisUp' = FALSE
    /\ UNCHANGED <<aggVars, dbVars, redisStore, inMemoryCache, rateVars, queueVars,
                   swaps, published, wsVars, httpVars, dbFaults>>

(***************************************************************************)
(* RedisCache: the per-owner rate limit                                    *)
(***************************************************************************)
\* RedisCache.incrementRateLimit: the value returned (ret), whether Redis
\* counted the call (counted), and the key afterwards (count, ttl).
incrementRateLimit(userId, incrOk, expireOk) ==
    IF redisUp /\ incrOk
    THEN LET count == rateCount[userId] + 1 IN
         IF count = 1
         THEN [ret |-> 1, counted |-> TRUE, count |-> 1, ttl |-> expireOk]
         ELSE [ret |-> count, counted |-> TRUE, count |-> count, ttl |-> rateTtl[userId]]
    ELSE [ret |-> 1, counted |-> FALSE, count |-> rateCount[userId],
          ttl |-> rateTtl[userId]]

isRateLimited_offByOne(ret) == ret > maxRequests + 1

\* RedisCache.isRateLimited, on the value incrementRateLimit returned
isRateLimited(ret) == ret > maxRequests

\* 60 seconds pass without a request: every ratelimit key that has an expiry
\* is gone
WindowElapse ==
    /\ \E u \in Owners : windowAdmits[u] > 0 \/ rateCount[u] > 0
    /\ rateCount' = [u \in Owners |-> IF rateTtl[u] THEN 0 ELSE rateCount[u]]
    /\ rateTtl' = [u \in Owners |-> FALSE]
    /\ keyAdmits' = [u \in Owners |-> IF rateTtl[u] THEN 0 ELSE keyAdmits[u]]
    /\ windowAdmits' = [u \in Owners |-> 0]
    /\ UNCHANGED <<aggVars, dbVars, cacheVars, queueVars, swaps, published, wsVars,
                   httpVars, dbFaults>>

(***************************************************************************)
(* POST /api/orders/execute (routes)                                       *)
(***************************************************************************)
Amounts == {<<>>, <<"0">>, <<"-", "1">>, <<"1">>}
Targets == {<<>>, <<"2">>}

CreateOrderRequest ==
    [type : OrderType \cup {"", "SWAP"}, side : {"", "BUY"},
     inputToken : {"", "SOL"}, outputToken : {"", "USDC"},
     inputAmount : Amounts, outputAmount : Targets]

\* the three 400 replies of the handler
MissingFields(req) ==
    \/ req.type = ""
    \/ req.side = ""
    \/ req.inputToken = ""
    \/ req.outputToken = ""
    \/ ~Truthy(req.inputAmount)

InvalidType(req) == req.type \notin OrderType

LimitWithoutTarget_never(req) == FALSE

LimitWithoutTarget(req) == req.type = LIMIT /\ ~Truthy(req.outputAmount)

Rejected400_missingOnly(req) == MissingFields(req)

Rejected400(req) == MissingFields(req) \/ InvalidType(req) \/ LimitWithoutTarget(req)

\* a well-formed MARKET request
MarketRequest ==
    [type |-> MARKET, side |-> "BUY", inputToken |-> "SOL", outputToken |-> "USDC",
     inputAmount |-> <<"1">>, outputAmount |-> <<>>]

\* the Order object the handler builds
NewOrder(orderId, userId, req) ==
    [id |-> orderId, userId |-> userId, type |-> req.type, side |-> req.side,
     inputToken |-> req.inputToken, outputToken |-> req.outputToken,
     inputAmount |-> req.inputAmount, outputAmount |-> req.outputAmount,
     slippageBps |-> 100, status |-> PENDING, retryCount |-> 0,
     selectedDex |-> "", executionPrice |-> <<>>, txSignature |-> 0,
     failureReason |-> <<>>, completedAt |-> 0]

\* the job orderQueue.add creates; delay: the backoff the job is waiting for,
\* waited: the backoff delays that have elapsed for the job so far (ms)
NewJob(order) ==
    [state |-> "waiting", attemptsMade |-> 0, pc |-> "", order |-> order,
     quote |-> NoQuote(RAYDIUM), signature |-> 0, error |-> "", delay |-> 0,
     waited |-> 0]

Reply(code, orderId, userId, req) ==
    [code |-> code, orderId |-> orderId, owner |-> userId, req |-> req]

\* One request, start to reply.  insertOk: the INSERT of createOrder did not
\* throw; addOk: orderQueue.add did not throw.
Submit(userId, req, incrOk, expireOk, setOk, insertOk, addOk) ==
    /\ submits' = submits + 1
    /\ IF Rejected400(req)
       THEN /\ reply' = Reply(400, 0, userId, req)
            /\ UNCHANGED <<dbVars, redisStore, inMemoryCache, rateVars, queueVars,
                           swaps, published, nextId, dbFaults>>
       ELSE LET rl == incrementRateLimit(userId, incrOk, expireOk)
                orderId == nextId
                order == NewOrder(orderId, userId, req)
                after == setOrder(Stores, orderId, order, setOk)
            IN
            /\ rateCount' = [rateCount EXCEPT ![userId] = rl.count]
            /\ rateTtl' = [rateTtl EXCEPT ![userId] = rl.ttl]
            /\ IF isRateLimited(rl.ret)
               THEN /\ reply' = Reply(429, 0, userId, req)
                    /\ UNCHANGED <<dbVars, redisStore, inMemoryCache, windowAdmits,
                                   keyAdmits, queueVars, swaps, published, nextId,
                                   dbFaults>>
               ELSE /\ nextId' = nextId + 1
                    /\ IF ~insertOk
                       THEN \* createOrder threw: caught, 500
                            /\ reply' = Reply(500, 0, userId, req)
                            /\ dbFaults' = dbFaults + 1
                            /\ UNCHANGED <<dbVars, redisStore, inMemoryCache,
                                           windowAdmits, keyAdmits, queueVars, swaps,
                                           published>>
                       ELSE /\ db' = Put(db, orderId, order)
                            /\ statusLog' = Put(statusLog, orderId, <<PENDING>>)
                            /\ retry_logs' = Put(retry_logs, orderId, <<>>)
                            /\ routing_decisions' = Put(routing_decisions, orderId, <<>>)
                            /\ swaps' = Put(swaps, orderId, 0)
                            /\ published' = Put(published, orderId, <<>>)
                            /\ redisStore' = after.redis
                            /\ inMemoryCache' = after.mem
                            /\ IF addOk
                               THEN /\ jobs' = Put(jobs, orderId, NewJob(order))
                                    /\ waitList' = Append(waitList, orderId)
                                    /\ reply' = Reply(201, orderId, userId, req)
                                    /\ windowAdmits' =
                                          [windowAdmits EXCEPT ![userId] = @ + 1]
                                    /\ keyAdmits' =
                                          [keyAdmits EXCEPT ![userId] =
                                              IF rl.counted THEN @ + 1 ELSE @]
                                    /\ UNCHANGED dbFaults
                               ELSE \* orderQueue.add threw: caught, 500
                                    /\ reply' = Reply(500, 0, userId, req)
                                    /\ dbFaults' = dbFaults + 1
                                    /\ UNCHANGED <<queueVars, windowAdmits, keyAdmits>>
    /\ UNCHANGED <<aggVars, redisUp, wsVars>>

(***************************************************************************)
(* OrderRepository (db/repository.ts) and the cache's updateOrderStatus    *)
(***************************************************************************)
Has(updates, field) == field \in DOMAIN updates

\* OrderRepository.updateOrderStatus: the row after the UPDATE
repoUpdateOrderStatus(row, status, updates) ==
    [row EXCEPT
        !.status = status,
        !.selectedDex =
            IF Has(updates, "selectedDex") /\ updates.selectedDex # ""
            THEN updates.selectedDex ELSE @,
        !.executionPrice =
            IF Has(updates, "executionPrice") /\ Truthy(updates.executionPrice)
            THEN updates.executionPrice ELSE @,
        !.txSignature =
            IF Has(updates, "txSignature") /\ updates.txSignature # 0
            THEN updates.txSignature ELSE @,
        !.failureReason =
            IF Has(updates, "failureReason") /\ Truthy(updates.failureReason)
            THEN updates.failureReason ELSE @,
        !.retryCount =
            IF Has(updates, "retryCount") THEN updates.retryCount ELSE @,
        !.completedAt =
            IF status \in {CONFIRMED, FAILED} THEN @ + 1 ELSE @]

\* the object RedisCache.updateOrderStatus stores: {...order, status, ...updates}
Spread(order, status, updates) ==
    [f \in DOMAIN order |->
        IF Has(updates, f) THEN updates[f]
        ELSE IF f = "status" THEN status
        ELSE order[f]]

\* RedisCache.updateOrderStatus: the pair of stores after the call
cacheUpdateOrderStatus(orderId, status, updates, getOk, setOk) ==
    LET got == getOrder(orderId, getOk) IN
    IF ~got.found THEN Stores
    ELSE setOrder(Stores, orderId, Spread(got.order, status, updates), setOk)

logRetry_none(rows, attemptNumber, errorMessage, retryAfterMs) == rows

\* OrderRepository.logRetry: the retry_logs rows of the order after the INSERT
logRetry(rows, attemptNumber, errorMessage, retryAfterMs) ==
    Append(rows, [attemptNumber |-> attemptNumber, errorMessage |-> errorMessage,
                  retryAfterMs |-> retryAfterMs])

\* OrderRepository.saveRoutingDecision: the rows of the order after the INSERT;
\* a quote column is null exactly when the venue returned no quote
saveRoutingDecision(rows, raydiumQuote, meteoraQuote, selected) ==
    Append(rows, [raydiumQuote |-> raydiumQuote.ok, meteoraQuote |-> meteoraQuote.ok,
                  selectedDex |-> selected.selectedDex, reason |-> selected.reason])

(***************************************************************************)
(* The order worker (workers/order-processor)                              *)
(***************************************************************************)
RECURSIVE Pow(_, _)
Pow(b, e) == IF e = 0 THEN 1 ELSE b * Pow(b, e - 1)

\* calculateBackoffDelay
calculateBackoffDelay(attemptNumber) ==
    backoffMs * Pow(backoffMultiplier, attemptNumber - 1)

ExponentialBackoff_fixed(attemptsMade) == backoffMs

\* BullMQ's built-in exponential backoff, on the attempts made so far
ExponentialBackoff(attemptsMade) == Pow(2, attemptsMade - 1) * backoffMs

\* calculateExecutionPrice of the routers: '0' for a zero output, else the
\* quotient input * 1e9 / output, kept symbolic
calculateExecutionPrice(inputAmount, out) ==
    IF out = 0 THEN <<"0">> ELSE inputAmount \o <<"e9/">> \o toString(out)

ActiveJobs == {o \in DOMAIN jobs : jobs[o].state = "active"}

SlotFree_always == TRUE

\* Worker option concurrency: a job starts only while a slot is free
SlotFree == Cardinality(ActiveJobs) < maxConcurrentOrders

IsLastAttempt_never(job) == FALSE

IsLastAttempt_early(job) == job.attemptsMade + 1 >= maxAttempts - 1

\* the catch block's test for the last attempt
IsLastAttempt(job) == job.attemptsMade + 1 >= maxAttempts

WSMessage(type, status) == [type |-> type, status |-> status]

\* broadcastUpdate: the message is handed to redisCache.publishOrderUpdate,
\* which publishes it on the Redis channel order:{id} while the cache service
\* is on Redis (nothing subscribes to the channel)
broadcastUpdate(orderId, message) ==
    published' = IF redisUp
                 THEN [published EXCEPT ![orderId] = Append(@, message)]
                 ELSE published

\* the worker's updateOrderStatus with a database that answers: the row, then
\* the cache
updateOrderStatus(orderId, status, updates) ==
    LET after == cacheUpdateOrderStatus(orderId, status, updates, TRUE, TRUE) IN
    /\ db' = [db EXCEPT ![orderId] = repoUpdateOrderStatus(@, status, updates)]
    /\ statusLog' = [statusLog EXCEPT ![orderId] = Append(@, status)]
    /\ redisStore' = after.redis
    /\ inMemoryCache' = after.mem

\* an exception leaves the process* function: control is in the catch block
Throw(orderId, message) ==
    jobs' = [jobs EXCEPT ![orderId].pc = "catch", ![orderId].error = message]

\* a database call of the worker throws
DbThrow(orderId) ==
    /\ dbFaults < MaxDbFaults
    /\ dbFaults' = dbFaults + 1
    /\ Throw(orderId, "db error")

Goto(orderId, pc) == jobs' = [jobs EXCEPT ![orderId].pc = pc]

StartJob_lifo(o) ==
    /\ waitList # <<>> /\ waitList[Len(waitList)] = o
    /\ SlotFree
    /\ waitList' = SubSeq(waitList, 1, Len(waitList) - 1)
    /\ jobs' = [jobs EXCEPT ![o].state = "active", ![o].pc = "routing"]
    /\ UNCHANGED <<aggVars, dbVars, cacheVars, rateVars, swaps, published, wsVars,
                   httpVars, dbFaults>>

\* the worker takes the job at the head of the wait list
StartJob(o) ==
    /\ waitList # <<>> /\ Head(waitList) = o
    /\ SlotFree
    /\ waitList' = Tail(waitList)
    /\ jobs' = [jobs EXCEPT ![o].state = "active", ![o].pc = "routing"]
    /\ UNCHANGED <<aggVars, dbVars, cacheVars, rateVars, swaps, published, wsVars,
                   httpVars, dbFaults>>

\* process*Order: status ROUTING and its broadcast
WriteRouting(o, ok) ==
    /\ o \in DOMAIN jobs
    /\ jobs[o].state = "active" /\ jobs[o].pc = "routing"
    /\ IF ok
       THEN /\ updateOrderStatus(o, ROUTING, EmptyMap)
            /\ broadcastUpdate(o, WSMessage("ORDER_STATUS", ROUTING))
            /\ Goto(o, "quote")
            /\ UNCHANGED <<retry_logs, routing_decisions, dbFaults>>
       ELSE /\ DbThrow(o)
            /\ UNCHANGED <<dbVars, redisStore, inMemoryCache, published>>
    /\ UNCHANGED <<aggVars, redisUp, rateVars, waitList, swaps, wsVars, httpVars>>

TargetNotMet_never(currentOutput, targetOutput) == FALSE

\* processLimitOrder's test of the quote against the order's target
TargetNotMet(currentOutput, targetOutput) == currentOutput < targetOutput

\* dexAggregator.getBestQuote with the venues' results, the decision row, the
\* ORDER_ROUTING broadcast of MARKET and SNIPER orders and the target test of
\* LIMIT orders
Aggregate(o, raydiumResult, meteoraResult, ok) ==
    /\ o \in DOMAIN jobs
    /\ jobs[o].state = "active" /\ jobs[o].pc = "quote"
    /\ LET res == getBestQuote(raydiumResult, meteoraResult)
           order == jobs[o].order
       IN
       IF res.kind = "throw"
       THEN /\ Throw(o, res.reason)
            /\ UNCHANGED <<routing_decisions, published, dbFaults>>
       ELSE IF ~ok
       THEN /\ DbThrow(o)
            /\ UNCHANGED <<routing_decisions, published>>
       ELSE /\ routing_decisions' =
                  [routing_decisions EXCEPT
                      ![o] = saveRoutingDecision(@, raydiumResult, meteoraResult, res)]
            /\ UNCHANGED dbFaults
            /\ IF order.type = LIMIT
               THEN /\ UNCHANGED published
                    /\ IF TargetNotMet(res.bestQuote.outputAmount,
                                       BigInt(order.outputAmount))
                       THEN Throw(o, "Target price not met")
                       ELSE jobs' = [jobs EXCEPT ![o].pc = "building",
                                                 ![o].quote = res.bestQuote]
               ELSE /\ broadcastUpdate(o, WSMessage("ORDER_ROUTING", ROUTING))
                    /\ jobs' = [jobs EXCEPT ![o].pc = "building",
                                            ![o].quote = res.bestQuote]
    /\ UNCHANGED <<aggVars, db, retry_logs, statusLog, cacheVars, rateVars, waitList,
                   swaps, wsVars, httpVars>>

\* status BUILDING and its broadcast
WriteBuilding(o, ok) ==
    /\ o \in DOMAIN jobs
    /\ jobs[o].state = "active" /\ jobs[o].pc = "building"
    /\ IF ok
       THEN /\ updateOrderStatus(o, BUILDING, [selectedDex |-> jobs[o].quote.dex])
            /\ broadcastUpdate(o, WSMessage("ORDER_STATUS", BUILDING))
            /\ Goto(o, "swap")
            /\ UNCHANGED <<retry_logs, routing_decisions, dbFaults>>
       ELSE /\ DbThrow(o)
            /\ UNCHANGED <<dbVars, redisStore, inMemoryCache, published>>
    /\ UNCHANGED <<aggVars, redisUp, rateVars, waitList, swaps, wsVars, httpVars>>

\* dexAggregator.executeSwap on the selected venue
ExecuteSwap(o, success) ==
    /\ o \in DOMAIN jobs
    /\ jobs[o].state = "active" /\ jobs[o].pc = "swap"
    /\ IF success
       THEN /\ swaps' = [swaps EXCEPT ![o] = @ + 1]
            /\ jobs' = [jobs EXCEPT ![o].pc = "submitted",
                                    ![o].signature = swaps[o] + 1]
       ELSE /\ Throw(o, "Swap execution failed")
            /\ UNCHANGED swaps
    /\ UNCHANGED <<aggVars, dbVars, cacheVars, rateVars, waitList, published, wsVars,
                   httpVars, dbFaults>>

\* status SUBMITTED and its broadcast
WriteSubmitted(o, ok) ==
    /\ o \in DOMAIN jobs
    /\ jobs[o].state = "active" /\ jobs[o].pc = "submitted"
    /\ IF ok
       THEN /\ updateOrderStatus(o, SUBMITTED,
                                 [txSignature |-> jobs[o].signature,
                                  selectedDex |-> jobs[o].quote.dex])
            /\ broadcastUpdate(o, WSMessage("ORDER_EXECUTION", SUBMITTED))
            /\ Goto(o, "confirmed")
            /\ UNCHANGED <<retry_logs, routing_decisions, dbFaults>>
       ELSE /\ DbThrow(o)
            /\ UNCHANGED <<dbVars, redisStore, inMemoryCache, published>>
    /\ UNCHANGED <<aggVars, redisUp, rateVars, waitList, swaps, wsVars, httpVars>>

\* status CONFIRMED and its broadcast; the processor returns and the job is
\* completed
WriteConfirmed(o, ok) ==
    /\ o \in DOMAIN jobs
    /\ jobs[o].state = "active" /\ jobs[o].pc = "confirmed"
    /\ IF ok
       THEN /\ updateOrderStatus(o, CONFIRMED,
                                 [txSignature |-> jobs[o].signature,
                                  executionPrice |->
                                      calculateExecutionPrice(jobs[o].order.inputAmount,
                                                              jobs[o].quote.outputAmount),
                                  outputAmount |-> toString(jobs[o].quote.outputAmount),
                                  selectedDex |-> jobs[o].quote.dex])
            /\ broadcastUpdate(o, WSMessage("ORDER_COMPLETE", CONFIRMED))
            /\ jobs' = [jobs EXCEPT ![o].state = "completed", ![o].pc = "",
                                    ![o].quote = NoQuote(RAYDIUM),
                                    ![o].signature = 0]
            /\ UNCHANGED <<retry_logs, routing_decisions, dbFaults>>
       ELSE /\ DbThrow(o)
            /\ UNCHANGED <<dbVars, redisStore, inMemoryCache, published>>
    /\ UNCHANGED <<aggVars, redisUp, rateVars, waitList, swaps, wsVars, httpVars>>

MoveToFailed_oneMore(job) ==
    IF job.attemptsMade + 1 < maxAttempts + 1
    THEN [job EXCEPT !.state = "delayed", !.attemptsMade = @ + 1, !.pc = "",
                     !.quote = NoQuote(RAYDIUM), !.signature = 0, !.error = "",
                     !.delay = ExponentialBackoff(job.attemptsMade + 1)]
    ELSE [job EXCEPT !.state = "failed", !.attemptsMade = @ + 1, !.pc = "",
                     !.quote = NoQuote(RAYDIUM), !.signature = 0, !.error = "",
                     !.delay = 0]

MoveToFailed_retryForever(job) ==
    [job EXCEPT !.state = "delayed", !.attemptsMade = @ + 1, !.pc = "",
                !.quote = NoQuote(RAYDIUM), !.signature = 0, !.error = "",
                !.delay = 0]

\* BullMQ after the processor threw: another attempt after the backoff, or the
\* job has failed
MoveToFailed(job) ==
    IF job.attemptsMade + 1 < maxAttempts
    THEN [job EXCEPT !.state = "delayed", !.attemptsMade = @ + 1, !.pc = "",
                     !.quote = NoQuote(RAYDIUM), !.signature = 0, !.error = "",
                     !.delay = ExponentialBackoff(job.attemptsMade + 1)]
    ELSE [job EXCEPT !.state = "failed", !.attemptsMade = @ + 1, !.pc = "",
                     !.quote = NoQuote(RAYDIUM), !.signature = 0, !.error = "",
                     !.delay = 0]

\* the catch block of the processor: logRetry, FAILED on the last attempt, and
\* the rethrow.  logOk, failOk: the INSERT and the UPDATE did not throw.
CatchFailure(o, logOk, failOk) ==
    /\ o \in DOMAIN jobs
    /\ jobs[o].state = "active" /\ jobs[o].pc = "catch"
    /\ (logOk /\ failOk) \/ dbFaults < MaxDbFaults
    /\ ~failOk => (logOk /\ IsLastAttempt(jobs[o]))
    /\ jobs' = [jobs EXCEPT ![o] = MoveToFailed(@)]
    /\ dbFaults' = IF logOk /\ failOk THEN dbFaults ELSE dbFaults + 1
    /\ IF ~logOk
       THEN UNCHANGED <<dbVars, redisStore, inMemoryCache>>
       ELSE /\ retry_logs' =
                  [retry_logs EXCEPT
                      ![o] = logRetry(@, jobs[o].attemptsMade + 1, jobs[o].error,
                                      calculateBackoffDelay(jobs[o].attemptsMade + 1))]
            /\ UNCHANGED routing_decisions
            /\ IF IsLastAttempt(jobs[o]) /\ failOk
               THEN updateOrderStatus(o, FAILED,
                        [failureReason |->
                            <<"Failed after", maxAttempts, "attempts:", jobs[o].error>>])
               ELSE UNCHANGED <<db, statusLog, redisStore, inMemoryCache>>
    /\ UNCHANGED <<aggVars, redisUp, rateVars, waitList, swaps, published, wsVars,
                   httpVars>>

BackoffElapsed_early(o) ==
    /\ o \in DOMAIN jobs
    /\ jobs[o].state \in {"delayed", "active"}
    /\ jobs' = [jobs EXCEPT ![o].state = "waiting", ![o].delay = 0,
                            ![o].waited = @ + jobs[o].delay]
    /\ waitList' = Append(waitList, o)
    /\ UNCHANGED <<aggVars, dbVars, cacheVars, rateVars, swaps, published, wsVars,
                   httpVars, dbFaults>>

\* the backoff delay of a delayed job has elapsed: back to the wait list
BackoffElapsed(o) ==
    /\ o \in DOMAIN jobs
    /\ jobs[o].state = "delayed"
    /\ jobs' = [jobs EXCEPT ![o].state = "waiting", ![o].delay = 0,
                            ![o].waited = @ + jobs[o].delay]
    /\ waitList' = Append(waitList, o)
    /\ UNCHANGED <<aggVars, dbVars, cacheVars, rateVars, swaps, published, wsVars,
                   httpVars, dbFaults>>

(***************************************************************************)
(* The worker with a database that answers every call                      *)
(***************************************************************************)
LimitRequest == [MarketRequest EXCEPT !.type = LIMIT, !.outputAmount = <<"2">>]

SniperRequest == [MarketRequest EXCEPT !.type = SNIPER]

SubmitOrder ==
    /\ nextId <= MaxOrders
    /\ \E req \in {MarketRequest, LimitRequest, SniperRequest} :
          Submit("default", req, TRUE, TRUE, TRUE, TRUE, TRUE)

Next ==
    \/ SubmitOrder
    \/ \E o \in 1..MaxOrders : StartJob(o)
    \/ \E o \in 1..MaxOrders : WriteRouting(o, TRUE)
    \/ \E o \in 1..MaxOrders, r \in getQuote(RAYDIUM), m \in getQuote(METEORA) :
          Aggregate(o, r, m, TRUE)
    \/ \E o \in 1..MaxOrders : WriteBuilding(o, TRUE)
    \/ \E o \in 1..MaxOrders, success \in BOOLEAN : ExecuteSwap(o, success)
    \/ \E o \in 1..MaxOrders : WriteSubmitted(o, TRUE)
    \/ \E o \in 1..MaxOrders : WriteConfirmed(o, TRUE)
    \/ \E o \in 1..MaxOrders : CatchFailure(o, TRUE, TRUE)
    \/ \E o \in 1..MaxOrders : BackoffElapsed(o)

Spec == Init /\ [][Next]_vars

Count(log, status) == Cardinality({i \in 1..Len(log) : log[i] = status})

SteadyQuote(d) == [ok |-> TRUE, dex |-> d, outputAmount |-> MaxOut, priceImpact |-> 0]

VenueResult(d) == {NoQuote(d), SteadyQuote(d)}

NextF ==
    \/ SubmitOrder
    \/ \E o \in 1..MaxOrders : StartJob(o)
    \/ \E o \in 1..MaxOrders, ok \in BOOLEAN : WriteRouting(o, ok)
    \/ \E o \in 1..MaxOrders, r \in VenueResult(RAYDIUM), m \in VenueResult(METEORA),
          ok \in BOOLEAN :
          Aggregate(o, r, m, ok)
    \/ \E o \in 1..MaxOrders, ok \in BOOLEAN : WriteBuilding(o, ok)
    \/ \E o \in 1..MaxOrders, success \in BOOLEAN : ExecuteSwap(o, success)
    \/ \E o \in 1..MaxOrders, ok \in BOOLEAN : WriteSubmitted(o, ok)
    \/ \E o \in 1..MaxOrders, ok \in BOOLEAN : WriteConfirmed(o, ok)
    \/ \E o \in 1..MaxOrders, logOk, failOk \in BOOLEAN : CatchFailure(o, logOk, failOk)
    \/ \E o \in 1..MaxOrders : BackoffElapsed(o)

SpecF == Init /\ [][NextF]_vars

Allowed ==
    {<<PENDING, ROUTING>>, <<ROUTING, ROUTING>>, <<ROUTING, BUILDING>>,
     <<BUILDING, ROUTING>>, <<BUILDING, SUBMITTED>>, <<SUBMITTED, ROUTING>>,
     <<SUBMITTED, CONFIRMED>>}
    \cup ({PENDING, ROUTING, BUILDING, SUBMITTED} \X {FAILED})

Rank(status) ==
    CASE status = PENDING -> 0
      [] status = ROUTING -> 1
      [] status = BUILDING -> 2
      [] status = SUBMITTED -> 3
      [] status = CONFIRMED -> 4
      [] status = FAILED -> 5

SubmitPoolOrder ==
    /\ nextId <= MaxPoolOrders
    /\ Submit("default", MarketRequest, TRUE, TRUE, TRUE, TRUE, TRUE)

NextPool ==
    \/ SubmitPoolOrder
    \/ \E o \in 1..MaxPoolOrders : StartJob(o)
    \/ \E o \in 1..MaxPoolOrders : WriteRouting(o, TRUE)
    \/ \E o \in 1..MaxPoolOrders :
          Aggregate(o, SteadyQuote(RAYDIUM), SteadyQuote(METEORA), TRUE)
    \/ \E o \in 1..MaxPoolOrders : WriteBuilding(o, TRUE)
    \/ \E o \in 1..MaxPoolOrders, success \in BOOLEAN : ExecuteSwap(o, success)
    \/ \E o \in 1..MaxPoolOrders : WriteSubmitted(o, TRUE)
    \/ \E o \in 1..MaxPoolOrders : WriteConfirmed(o, TRUE)
    \/ \E o \in 1..MaxPoolOrders : CatchFailure(o, TRUE, TRUE)
    \/ \E o \in 1..MaxPoolOrders : BackoffElapsed(o)

SpecPool == Init /\ [][NextPool]_vars

InFlight == {ROUTING, BUILDING, SUBMITTED}

\* C4 as claimed: the orders whose stored status is ROUTING, BUILDING or
\* SUBMITTED are at most maxConcurrentOrders.
C4_StoredStatusWithinPool ==
    Cardinality({o \in DOMAIN db : db[o].status \in InFlight}) <= maxConcurrentOrders

\* C4 as amended: the orders whose stored status is ROUTING, BUILDING or
\* SUBMITTED and whose attempt a worker is executing are at most
\* maxConcurrentOrders; the order of a failed attempt keeps its status while
\* its job waits for the retry, without a worker.
C4_ExecutingWithinPool ==
    Cardinality({o \in DOMAIN db : db[o].status \in InFlight /\ jobs[o].state = "active"})
        <= maxConcurrentOrders

C4_Witness ==
    \E o1, o2 \in DOMAIN jobs :
        /\ db[o1].status \in InFlight /\ jobs[o1].state = "active"
        /\ db[o2].status \in InFlight /\ jobs[o2].state = "delayed"

(***************************************************************************)
(* The order stream: GET /ws/orders/:orderId (routes)                      *)
(***************************************************************************)
\* the handler up to its first await: the connection is added to wsConnections
WsConnect(c, orderId) ==
    /\ conns[c].state = "idle"
    /\ c > 1 => conns[c-1].state # "idle"
    /\ conns' = [conns EXCEPT ![c] =
                    [@ EXCEPT !.state = "open", !.orderId = orderId, !.pending = TRUE,
                              !.since = IF orderId \in DOMAIN published
                                        THEN Len(published[orderId]) ELSE 0]]
    /\ wsConnections' =
          Put(wsConnections, orderId,
              IF orderId \in DOMAIN wsConnections
              THEN wsConnections[orderId] \cup {c} ELSE {c})
    /\ UNCHANGED <<aggVars, dbVars, cacheVars, rateVars, queueVars, swaps, published,
                   relayed, httpVars, dbFaults>>

Send_dropped(conn, message) == conn

Send_twice(conn, message) ==
    IF conn.state = "open"
    THEN [conn EXCEPT !.recv = Append(Append(@, message), message)] ELSE conn

\* a send on a socket: the client receives the message while the socket is open
Send(conn, message) ==
    IF conn.state = "open" THEN [conn EXCEPT !.recv = Append(@, message)] ELSE conn

\* the rest of the handler: the order is looked up in the cache, then in the
\* database (readOk: the SELECT did not throw); the snapshot is sent and the
\* listeners are registered, or the error is sent, the socket is closed and
\* the handler returns
WsSendInitial(c, readOk) ==
    /\ conns[c].pending
    /\ LET orderId == conns[c].orderId
           got == getOrder(orderId, TRUE)
           conn == [conns[c] EXCEPT !.pending = FALSE]
       IN
       /\ readOk \/ (~got.found /\ dbFaults < MaxDbFaults)
       /\ dbFaults' = IF readOk THEN dbFaults ELSE dbFaults + 1
       /\ conns' = [conns EXCEPT ![c] =
             IF got.found
             THEN [Send(conn, WSMessage("ORDER_STATUS", got.order.status))
                      EXCEPT !.onClose = TRUE]
             ELSE IF ~readOk
             THEN [conn EXCEPT !.onClose = TRUE]
             ELSE IF orderId \in DOMAIN db
             THEN [Send(conn, WSMessage("ORDER_STATUS", db[orderId].status))
                      EXCEPT !.onClose = TRUE]
             ELSE [Send(conn, WSMessage("ERROR", "Order not found"))
                      EXCEPT !.state = "closed",
                             !.closedBy = IF conn.state = "open" THEN "server" ELSE @]]
    /\ UNCHANGED <<aggVars, dbVars, cacheVars, rateVars, queueVars, swaps, published,
                   wsConnections, relayed, httpVars>>

\* the client closes the socket; the 'close' listener, when registered,
\* removes the connection from wsConnections
WsClientClose(c) ==
    /\ conns[c].state = "open"
    /\ conns' = [conns EXCEPT ![c].state = "closed", ![c].closedBy = "client"]
    /\ wsConnections' =
          IF ~conns[c].onClose \/ conns[c].orderId \notin DOMAIN wsConnections
          THEN wsConnections
          ELSE LET orderId == conns[c].orderId
                   connections == wsConnections[orderId] \ {c}
               IN IF connections = {}
                  THEN [k \in DOMAIN wsConnections \ {orderId} |-> wsConnections[k]]
                  ELSE [wsConnections EXCEPT ![orderId] = connections]
    /\ UNCHANGED <<aggVars, dbVars, cacheVars, rateVars, queueVars, swaps, published,
                   relayed, httpVars, dbFaults>>

SubmitStreamOrder ==
    /\ nextId <= MaxOrders
    /\ Submit("default", MarketRequest, TRUE, TRUE, TRUE, TRUE, TRUE)

NextWs ==
    \/ SubmitStreamOrder
    \/ \E o \in 1..MaxOrders : StartJob(o)
    \/ \E o \in 1..MaxOrders : WriteRouting(o, TRUE)
    \/ \E o \in 1..MaxOrders :
          Aggregate(o, SteadyQuote(RAYDIUM), SteadyQuote(METEORA), TRUE)
    \/ \E o \in 1..MaxOrders : WriteBuilding(o, TRUE)
    \/ \E o \in 1..MaxOrders, success \in BOOLEAN : ExecuteSwap(o, success)
    \/ \E o \in 1..MaxOrders : WriteSubmitted(o, TRUE)
    \/ \E o \in 1..MaxOrders : WriteConfirmed(o, TRUE)
    \/ \E o \in 1..MaxOrders : CatchFailure(o, TRUE, TRUE)
    \/ \E o \in 1..MaxOrders : BackoffElapsed(o)
    \/ \E c \in 1..MaxConns, orderId \in 1..MaxOrders : WsConnect(c, orderId)
    \/ \E c \in 1..MaxConns : WsSendInitial(c, TRUE)
    \/ \E c \in 1..MaxConns : WsClientClose(c)

SpecWs == Init /\ [][NextWs]_vars

Terminal == {CONFIRMED, FAILED}

\* the events a client has received after the first message of the stream
EventsReceived(c) == SubSeq(conns[c].recv, 2, Len(conns[c].recv))

\* the events the worker has published for the order since the client subscribed
EventsPublished(c) ==
    SubSeq(published[conns[c].orderId], conns[c].since + 1,
           Len(published[conns[c].orderId]))

\* C5: once the job of an order has ended, every client still subscribed to
\* the order has received the events the worker published for it after the
\* client subscribed, in publish order.
C5_SubscribersReceiveEvents ==
    \A c \in 1..MaxConns :
        (/\ conns[c].state = "open" /\ ~conns[c].pending
         /\ conns[c].orderId \in DOMAIN jobs
         /\ jobs[conns[c].orderId].state \in {"completed", "failed"})
        => EventsReceived(c) = EventsPublished(c)

\* C6: no stream of an order whose stored status is CONFIRMED or FAILED stays
\* open once the handler has sent its first message: the server has closed it.
C6_TerminalStreamClosed ==
    \A c \in 1..MaxConns :
        (/\ ~conns[c].pending /\ conns[c].state # "idle"
         /\ conns[c].orderId \in DOMAIN db
         /\ db[conns[c].orderId].status \in Terminal)
        => conns[c].state = "closed" /\ conns[c].closedBy = "server"

(***************************************************************************)
(* The aggregator on its own: getBestQuote called with every pair of venue *)
(* results.                                                                *)
(***************************************************************************)
InitQuote ==
    /\ aggIn \in getQuote(RAYDIUM) \X getQuote(METEORA)
    /\ aggOut = Thrown("not called")
    /\ InitRest

CallGetBestQuote ==
    /\ aggOut = Thrown("not called")
    /\ aggOut' = getBestQuote(aggIn[1], aggIn[2])
    /\ UNCHANGED <<aggIn, dbVars, cacheVars, rateVars, queueVars, swaps, published,
                   wsVars, httpVars, dbFaults>>

NextQuote == CallGetBestQuote

SpecQuote == InitQuote /\ [][NextQuote]_vars

\* the quotes the venues returned in the call under test
ReturnedQuotes == {q \in {aggIn[1], aggIn[2]} : q.ok}

\* C1: whenever getBestQuote selected a quote, its output quantity is at least
\* the output quantity of every quote a venue returned in that call.
C1_BestOutput ==
    aggOut.kind = "ok" =>
        \A q \in ReturnedQuotes : aggOut.bestQuote.outputAmount >= q.outputAmount

\* C1 witness: both venues quoted, with different outputs, and one was selected
C1_Witness ==
    /\ aggOut.kind = "ok"
    /\ aggIn[1].ok /\ aggIn[2].ok
    /\ aggIn[1].outputAmount # aggIn[2].outputAmount

\* C2: on equal output quantities the selected quote is one a venue returned
\* whose price impact is not above the other's, and on equal price impact too
\* the selected venue is always the same one (Meteora).
C2_TieBreak ==
    (aggOut.kind = "ok" /\ aggIn[1].ok /\ aggIn[2].ok
        /\ aggIn[1].outputAmount = aggIn[2].outputAmount) =>
        /\ aggOut.bestQuote \in ReturnedQuotes
        /\ \A q \in ReturnedQuotes : aggOut.bestQuote.priceImpact <= q.priceImpact
        /\ (aggIn[1].priceImpact = aggIn[2].priceImpact => aggOut.selectedDex = METEORA)

\* C2 witness: equal outputs with Raydium's price impact strictly lower, decided
C2_Witness ==
    /\ aggOut.kind = "ok"
    /\ aggIn[1].ok /\ aggIn[2].ok
    /\ aggIn[1].outputAmount = aggIn[2].outputAmount
    /\ aggIn[1].priceImpact < aggIn[2].priceImpact


(***************************************************************************)
(* Admission on its own: any requests, with the database insert and the    *)
(* enqueue failing or not.                                                 *)
(***************************************************************************)
SubmitAny ==
    /\ submits < MaxSubmits
    /\ \E userId \in Owners, req \in CreateOrderRequest, insertOk, addOk \in BOOLEAN :
          /\ (insertOk /\ addOk) \/ dbFaults < MaxDbFaults
          /\ Submit(userId, req, TRUE, TRUE, TRUE, insertOk, addOk)

NextAdmit == SubmitAny \/ RedisError

SpecAdmit == Init /\ [][NextAdmit]_vars

\* C7: a submission whose input quantity is not positive is answered 400, and
\* no order with such a quantity is in the database, the cache or the queue.
C7_NonPositiveRejected ==
    /\ (submits > 0 /\ BigInt(reply.req.inputAmount) <= 0) => reply.code = 400
    /\ \A o \in DOMAIN db : BigInt(db[o].inputAmount) > 0
    /\ \A o \in DOMAIN redisStore : BigInt(redisStore[o].inputAmount) > 0
    /\ \A o \in DOMAIN inMemoryCache : BigInt(inMemoryCache[o].inputAmount) > 0
    /\ \A o \in DOMAIN jobs : BigInt(jobs[o].order.inputAmount) > 0

\* C9: a submission is all-or-nothing: every order in the database has its job
\* in the queue, and a call answered with an error left no order behind.
C9_AllOrNothing ==
    /\ \A o \in DOMAIN db : o \in DOMAIN jobs
    /\ reply.code # 201 => nextId - 1 \notin DOMAIN db

(***************************************************************************)
(* The rate limit on its own: well-formed MARKET submissions of two owners *)
(* against a database and a queue that work, with the cache service        *)
(* falling back to its in-memory store at any moment.                      *)
(***************************************************************************)
SubmitMarket ==
    /\ submits < maxRequests + MaxOverCap
    /\ \E userId \in Owners :
          Submit(userId, MarketRequest, TRUE, TRUE, TRUE, TRUE, TRUE)

NextRate == SubmitMarket \/ RedisError \/ WindowElapse

SpecRate == Init /\ [][NextRate]_vars

CallUpdateOrderStatus(o, status) ==
    /\ o \in DOMAIN db
    /\ Len(statusLog[o]) <= MaxUpdates
    /\ updateOrderStatus(o, status, EmptyMap)
    /\ UNCHANGED <<aggVars, retry_logs, routing_decisions, redisUp, rateVars,
                   queueVars, swaps, published, wsVars, httpVars, dbFaults>>

NextUpdate ==
    \/ SubmitOrder
    \/ \E o \in 1..MaxOrders, status \in OrderStatus : CallUpdateOrderStatus(o, status)

SpecUpdate == Init /\ [][NextUpdate]_vars

\* C11: a status is stored for an order only by a legal transition of the
\* order state machine; an update that is not one (CONFIRMED to ROUTING, or
\* any update of an order in CONFIRMED or FAILED) is not applied.
C11_IllegalTransitionRejected ==
    \A o \in DOMAIN statusLog :
        \A i \in 2..Len(statusLog[o]) :
            <<statusLog[o][i-1], statusLog[o][i]>> \in Allowed

(***************************************************************************)
(* The worker under fair scheduling: a step that can be taken (a waiting   *)
(* job with a free slot, the next statement of an attempt, a backoff timer *)
(* that runs out) is eventually taken.                                     *)
(***************************************************************************)
SpecLive == Init /\ [][Next]_vars /\ WF_vars(Next)

JobEnded(o) == jobs[o].state \in {"completed", "failed"}

Delays == <<backoffMs, 2 * backoffMs, 4 * backoffMs>>

RECURSIVE SumOfDelays(_)
SumOfDelays(k) == IF k = 0 THEN 0 ELSE SumOfDelays(k - 1) + Delays[k]

\* C13: the delay recorded for failed attempt k is backoffMs * 2^(k-1); the
\* delay the queue schedules before attempt k+1 is the same value; and a job
\* that is waiting for, running or has completed attempt k+1 has waited out
\* the delays of attempts 1..k.
C13_BackoffDelays ==
    \A o \in DOMAIN jobs :
        /\ \A k \in 1..Len(retry_logs[o]) :
              /\ retry_logs[o][k].attemptNumber = k
              /\ retry_logs[o][k].retryAfterMs = Delays[k]
        /\ jobs[o].state = "delayed" =>
              /\ jobs[o].delay = Delays[jobs[o].attemptsMade]
              /\ jobs[o].waited = SumOfDelays(jobs[o].attemptsMade - 1)
        /\ jobs[o].state \in {"waiting", "active", "completed"} =>
              jobs[o].waited = SumOfDelays(jobs[o].attemptsMade)

C13_Witness ==
    \E o \in DOMAIN jobs :
        /\ jobs[o].state = "completed"
        /\ jobs[o].attemptsMade = 2
        /\ jobs[o].waited >= backoffMs + 2 * backoffMs

InWaitList(o) == \E i \in 1..Len(waitList) : waitList[i] = o

EventOf(status) ==
    CASE status = SUBMITTED -> "ORDER_EXECUTION"
      [] status = CONFIRMED -> "ORDER_COMPLETE"
      [] status = FAILED    -> "ORDER_FAILED"
      [] OTHER              -> "ORDER_STATUS"

IsStatusEvent(message) == message.type # "ORDER_ROUTING"

\* the status events published for an order, in order (the ORDER_ROUTING
\* message announces the routing decision, not a transition)
StatusEvents(o) == SelectSeq(published[o], IsStatusEvent)

\* the transitions the worker performed on an order: all but the PENDING row
\* written at submission
WorkerTransitions(o) == Tail(statusLog[o])

\* C15: every status transition the worker performs (ROUTING, BUILDING,
\* SUBMITTED, CONFIRMED, FAILED) is followed by the publish of its event before
\* the order's next transition: in every state the status events published for
\* an order are exactly the events of the transitions performed on it.
C15_TransitionsPublished ==
    \A o \in DOMAIN jobs :
        /\ Len(StatusEvents(o)) = Len(WorkerTransitions(o))
        /\ \A i \in 1..Len(WorkerTransitions(o)) :
              StatusEvents(o)[i] =
                  WSMessage(EventOf(WorkerTransitions(o)[i]), WorkerTransitions(o)[i])

IsFailureEvent(message) == message.type \in {"ORDER_FAILED", "ERROR"}

FailureEvents(o) == SelectSeq(published[o], IsFailureEvent)

\* C16: failures reach subscribers only when retries are exhausted: while the
\* order's job has not failed for good no failure event has been published for
\* it, and once the final attempt has failed exactly one ORDER_FAILED event
\* has been published for it (the error text it would carry is not needed to
\* refute the statement: no such event exists).
C16_FailureSurfacedWhenExhausted ==
    \A o \in DOMAIN jobs :
        /\ jobs[o].state # "failed" => FailureEvents(o) = <<>>
        /\ jobs[o].state = "failed" =>
              /\ Len(FailureEvents(o)) = 1
              /\ FailureEvents(o)[1].type = "ORDER_FAILED"

NotFound(orderId) == ~getOrder(orderId, TRUE).found /\ orderId \notin DOMAIN db

\* C18: opening a stream for an orderId found neither in the cache nor in the
\* database sends exactly one ERROR message and closes the stream: the handler
\* step that completes such a lookup on an open socket leaves the client with
\* the single message ERROR 'Order not found' and the socket closed by the
\* server, and nothing is ever sent on a closed stream, which stays closed.
C18_NotFoundErrorThenClose ==
    [][\A c \in 1..MaxConns :
          /\ (/\ conns[c].pending /\ ~conns'[c].pending
              /\ conns[c].state = "open"
              /\ NotFound(conns[c].orderId))
             => /\ conns'[c].recv = <<WSMessage("ERROR", "Order not found")>>
                /\ conns'[c].state = "closed"
                /\ conns'[c].closedBy = "server"
          /\ conns[c].state = "closed"
             => /\ conns'[c].recv = conns[c].recv
                /\ conns'[c].state = "closed"]_vars

C18_Witness ==
    \E c \in 1..MaxConns :
        /\ conns[c].state = "closed" /\ conns[c].closedBy = "server"
        /\ conns[c].recv = <<WSMessage("ERROR", "Order not found")>>
        /\ conns[c].orderId \in DOMAIN db
        /\ db[conns[c].orderId].status = CONFIRMED

AllVenuesFailed ==
    "All DEX quotes failed: Raydium: Error: Raydium quote failed: Unknown error; Meteora: Error: Meteora quote failed: Unknown error"

\* C20: when every venue's getQuote fails, getBestQuote fails with an error
\* whose message carries each venue's error message, and the worker handles
\* that failure as a failed attempt: it is caught inside the running job and
\* recorded as the row of that attempt; after an attempt before the last the
\* order is not FAILED and the job is retried, after the last attempt the job
\* has failed and the order is FAILED with that message in its failure reason.
C20_AllVenuesFailedIsAnAttempt ==
    /\ getBestQuote(NoQuote(RAYDIUM), NoQuote(METEORA)) = Thrown(AllVenuesFailed)
    /\ \A o \in DOMAIN jobs :
          /\ (jobs[o].pc = "catch" /\ jobs[o].error = AllVenuesFailed) =>
                /\ jobs[o].state = "active"
                /\ Len(retry_logs[o]) = jobs[o].attemptsMade
          /\ \A k \in 1..Len(retry_logs[o]) :
                retry_logs[o][k].errorMessage = AllVenuesFailed =>
                    /\ jobs[o].attemptsMade >= k
                    /\ (k < maxAttempts /\ jobs[o].attemptsMade = k) =>
                          /\ jobs[o].state \in {"delayed", "waiting", "active", "completed"}
                          /\ db[o].status # FAILED
                    /\ k = maxAttempts =>
                          /\ jobs[o].state = "failed"
                          /\ db[o].status = FAILED
                          /\ db[o].failureReason =
                                <<"Failed after", maxAttempts, "attempts:", AllVenuesFailed>>

C20_Witness ==
    \E o \in DOMAIN jobs :
        /\ jobs[o].state = "failed"
        /\ Len(retry_logs[o]) = maxAttempts
        /\ retry_logs[o][1].errorMessage = AllVenuesFailed
        /\ retry_logs[o][maxAttempts].errorMessage = AllVenuesFailed

\* the copy of an order the cache serves, when it serves one
Cached(o) == getOrder(o, TRUE)

\* the settlement reference of an order object agrees with its status
SignatureAgrees(order) ==
    /\ order.status \in {PENDING, ROUTING, BUILDING} => order.txSignature = 0
    /\ order.status \in {SUBMITTED, CONFIRMED} => order.txSignature # 0

\* C21: in every reachable state the settlement reference of a stored order
\* (the row, and the cached copy when there is one) is set if and only if the
\* order has reached SUBMITTED: unset in PENDING, ROUTING and BUILDING, set in
\* SUBMITTED and CONFIRMED.
C21_SignatureIffSubmitted ==
    \A o \in DOMAIN db :
        /\ SignatureAgrees(db[o])
        /\ Cached(o).found => SignatureAgrees(Cached(o).order)

\* completedAt counts the writes of the completion timestamp: an order object
\* in a terminal status carries a timestamp written once, any other none
CompletedAtAgrees(order) ==
    IF order.status \in Terminal THEN order.completedAt = 1 ELSE order.completedAt = 0

\* C22: the completion timestamp of a stored order (the row, and the copy the
\* cache serves) is set when and only when the order is CONFIRMED or FAILED,
\* and is written exactly once: unset in every non-terminal state, set in
\* every terminal state, never rewritten.
C22_CompletedAtOnceWhenTerminal ==
    \A o \in DOMAIN db :
        /\ CompletedAtAgrees(db[o])
        /\ Cached(o).found => CompletedAtAgrees(Cached(o).order)

(***************************************************************************)
(* Venues that may never answer.  getBestQuote awaits Promise.allSettled   *)
(* on the two getQuote promises, with no timer racing them: the await      *)
(* resumes when both promises have settled and not before.                 *)
(***************************************************************************)
\* a getQuote promise that never settles
Silent(d) == [settled |-> FALSE, dex |-> d]

IsSilent(result) == "settled" \in DOMAIN result

VenueOutcome(d) == VenueResult(d) \cup {Silent(d)}

\* the getBestQuote call of an attempt: with both promises settled it is
\* Aggregate; with a promise that never settles the attempt stays in the await
\* of Promise.allSettled, which nothing in the worker or the queue ends
CallVenues(o, raydiumResult, meteoraResult) ==
    IF IsSilent(raydiumResult) \/ IsSilent(meteoraResult)
    THEN /\ o \in DOMAIN jobs
         /\ jobs[o].state = "active" /\ jobs[o].pc = "quote"
         /\ Goto(o, "allSettled")
         /\ UNCHANGED <<aggVars, dbVars, cacheVars, rateVars, waitList, swaps,
                        published, wsVars, httpVars, dbFaults>>
    ELSE Aggregate(o, raydiumResult, meteoraResult, TRUE)

NextSilent ==
    \/ SubmitOrder
    \/ \E o \in 1..MaxOrders : StartJob(o)
    \/ \E o \in 1..MaxOrders : WriteRouting(o, TRUE)
    \/ \E o \in 1..MaxOrders, r \in VenueOutcome(RAYDIUM), m \in VenueOutcome(METEORA) :
          CallVenues(o, r, m)
    \/ \E o \in 1..MaxOrders : WriteBuilding(o, TRUE)
    \/ \E o \in 1..MaxOrders, success \in BOOLEAN : ExecuteSwap(o, success)
    \/ \E o \in 1..MaxOrders : WriteSubmitted(o, TRUE)
    \/ \E o \in 1..MaxOrders : WriteConfirmed(o, TRUE)
    \/ \E o \in 1..MaxOrders : CatchFailure(o, TRUE, TRUE)
    \/ \E o \in 1..MaxOrders : BackoffElapsed(o)

SpecSilent == Init /\ [][NextSilent]_vars /\ WF_vars(NextSilent)

SubmitKindOrder ==
    /\ nextId <= MaxPoolOrders
    /\ \E req \in {MarketRequest, LimitRequest, SniperRequest} :
          Submit("default", req, TRUE, TRUE, TRUE, TRUE, TRUE)

NextKinds ==
    \/ SubmitKindOrder
    \/ \E o \in 1..MaxPoolOrders : StartJob(o)
    \/ \E o \in 1..MaxPoolOrders : WriteRouting(o, TRUE)
    \/ \E o \in 1..MaxPoolOrders :
          Aggregate(o, SteadyQuote(RAYDIUM), SteadyQuote(METEORA), TRUE)
    \/ \E o \in 1..MaxPoolOrders : WriteBuilding(o, TRUE)
    \/ \E o \in 1..MaxPoolOrders, success \in BOOLEAN : ExecuteSwap(o, success)
    \/ \E o \in 1..MaxPoolOrders : WriteSubmitted(o, TRUE)
    \/ \E o \in 1..MaxPoolOrders : WriteConfirmed(o, TRUE)
    \/ \E o \in 1..MaxPoolOrders : CatchFailure(o, TRUE, TRUE)
    \/ \E o \in 1..MaxPoolOrders : BackoffElapsed(o)

SpecKinds == Init /\ [][NextKinds]_vars

\* the first attempt of the order's job has started
FirstAttemptStarted(o) == jobs[o].attemptsMade > 0 \/ jobs[o].state # "waiting"

PassesStarted(o) == Count(statusLog[o], ROUTING)

PassesEnded(o) ==
    jobs[o].attemptsMade + (IF jobs[o].state = "completed" THEN 1 ELSE 0)

SampleRequests ==
    {MarketRequest, LimitRequest, SniperRequest,
     [MarketRequest EXCEPT !.side = ""],
     [MarketRequest EXCEPT !.inputAmount = <<>>],
     [MarketRequest EXCEPT !.type = "SWAP"],
     [LimitRequest EXCEPT !.outputAmount = <<>>]}

SubmitSample ==
    /\ submits < maxRequests + MaxOverCap
    /\ \E req \in SampleRequests : Submit("default", req, TRUE, TRUE, TRUE, TRUE, TRUE)

NextReject == SubmitSample \/ RedisError

SpecReject == Init /\ [][NextReject]_vars

\* a submission that validation must refuse
InvalidSubmission(req) ==
    \/ req.type \notin {MARKET, LIMIT, SNIPER}
    \/ req.side = "" \/ req.inputToken = "" \/ req.outputToken = ""
    \/ req.inputAmount = <<>>
    \/ req.type = LIMIT /\ req.outputAmount = <<>>

\* C26: a submission rejected for validation or throttling never enters the
\* pipeline: the call of an invalid submission, and every call answered 400 or
\* 429, returns no order id and leaves the database rows, both cache stores,
\* the jobs and the wait list as they were.
C26_RejectedLeavesNoTrace ==
    [][(/\ submits' = submits + 1
        /\ InvalidSubmission(reply'.req) \/ reply'.code \in {400, 429})
       => /\ reply'.code \in {400, 429}
          /\ reply'.orderId = 0
          /\ UNCHANGED <<db, statusLog, retry_logs, routing_decisions, redisStore,
                         inMemoryCache, jobs, waitList>>]_vars

C26_Witness ==
    /\ reply.code = 429
    /\ \E o \in DOMAIN db : db[o].type = LIMIT
    /\ Cardinality(DOMAIN db) = maxRequests
    /\ submits = maxRequests + 2

\* a submission whose fields other than the target are all acceptable
WellFormedButTarget(req) ==
    /\ req.type \in {MARKET, LIMIT, SNIPER}
    /\ req.side # "" /\ req.inputToken # "" /\ req.outputToken # ""
    /\ req.inputAmount # <<>>

\* C27: a LIMIT submission without a target output quantity is answered 400
\* and creates no order, so no stored LIMIT order lacks a target; a MARKET or
\* SNIPER submission without one that is not throttled is answered 201 and its
\* order is created.
C27_LimitNeedsTarget ==
    /\ [](\A o \in DOMAIN db : db[o].type = LIMIT => db[o].outputAmount # <<>>)
    /\ [][(/\ submits' = submits + 1
           /\ WellFormedButTarget(reply'.req)
           /\ reply'.req.outputAmount = <<>>)
          => IF reply'.req.type = LIMIT
             THEN /\ reply'.code = 400
                  /\ UNCHANGED <<db, redisStore, inMemoryCache, jobs, waitList>>
             ELSE reply'.code # 429 =>
                     /\ reply'.code = 201
                     /\ reply'.orderId \in DOMAIN db' \ DOMAIN db
                     /\ db'[reply'.orderId].type = reply'.req.type
                     /\ db'[reply'.orderId].outputAmount = <<>>]_vars

C27_Witness ==
    /\ reply.code = 400 /\ reply.req.type = LIMIT /\ reply.req.outputAmount = <<>>
    /\ \E o \in DOMAIN db : db[o].type = SNIPER /\ db[o].outputAmount = <<>>
    /\ \E o \in DOMAIN db : db[o].type = MARKET /\ db[o].outputAmount = <<>>

\* the failed attempt k of an order has left a persisted trace
AttemptTraced(o, k) ==
    \/ \E i \in 1..Len(retry_logs[o]) : retry_logs[o][i].attemptNumber = k
    \/ Truthy(db[o].failureReason)

\* C28: nothing fails silently, whichever persistence calls fail: every failed
\* attempt of an order has its retry_logs row or the order has a failure
\* reason, and an order whose job has used up its attempts has status FAILED
\* with a failure reason.
C28_NoSilentFailure ==
    \A o \in DOMAIN jobs :
        /\ \A k \in 1..jobs[o].attemptsMade : AttemptTraced(o, k)
        /\ jobs[o].state = "failed" =>
              /\ db[o].status = FAILED
              /\ Truthy(db[o].failureReason)

\* the step of an attempt in which its getBestQuote call returns or throws
QuoteStep(o) == o \in DOMAIN jobs /\ jobs[o].pc = "quote" /\ jobs'[o].pc # "quote"

\* that call threw because no venue returned a quote
NoVenueAnswered(o) == jobs'[o].pc = "catch" /\ jobs'[o].error = AllVenuesFailed

IsPrefix(s, t) == Len(s) <= Len(t) /\ SubSeq(t, 1, Len(s)) = s

C30_NoDelayOnFinalAttempt ==
    \A o \in DOMAIN retry_logs :
        \A k \in 1..Len(retry_logs[o]) :
            IF retry_logs[o][k].attemptNumber < maxAttempts
            THEN retry_logs[o][k].retryAfterMs = ExponentialBackoff(retry_logs[o][k].attemptNumber)
            ELSE retry_logs[o][k].retryAfterMs = 0

(***************************************************************************)
(* Submissions while single Redis commands of the rate limit may throw     *)
(***************************************************************************)
\* incrOk: the INCR did not throw; expireOk: the EXPIRE after the first
\* increment did not throw (the catch of incrementRateLimit only warns)
SubmitRedisFaults ==
    /\ submits < maxRequests + MaxOverCap
    /\ \E userId \in Owners, incrOk, expireOk \in BOOLEAN :
          Submit(userId, MarketRequest, incrOk, expireOk, TRUE, TRUE, TRUE)

NextExpire == SubmitRedisFaults \/ WindowElapse

SpecExpire == Init /\ [][NextExpire]_vars

\* C31: the rate-limit counter is incremented and given its expiry as one
\* step, whatever fails in between: whenever an owner's ratelimit key exists
\* (its count is positive) the key has an expiry, so the count resets when
\* the window elapses.
C31_KeyAlwaysExpires ==
    \A u \in Owners : rateCount[u] > 0 => rateTtl[u]

(***************************************************************************)
(* One order while the Redis SETEX of setOrder may throw at submission and *)
(* the Redis client may be lost ('error' event) at any time                *)
(***************************************************************************)
SubmitCacheFault ==
    /\ nextId <= MaxOrders
    /\ \E setOk \in BOOLEAN : Submit("default", MarketRequest, TRUE, TRUE, setOk, TRUE, TRUE)

NextCache ==
    \/ SubmitCacheFault
    \/ RedisError
    \/ \E o \in 1..MaxOrders : StartJob(o)
    \/ \E o \in 1..MaxOrders : WriteRouting(o, TRUE)
    \/ \E o \in 1..MaxOrders, r \in VenueResult(RAYDIUM), m \in VenueResult(METEORA) :
          Aggregate(o, r, m, TRUE)
    \/ \E o \in 1..MaxOrders : WriteBuilding(o, TRUE)
    \/ \E o \in 1..MaxOrders, success \in BOOLEAN : ExecuteSwap(o, success)
    \/ \E o \in 1..MaxOrders : WriteSubmitted(o, TRUE)
    \/ \E o \in 1..MaxOrders : WriteConfirmed(o, TRUE)
    \/ \E o \in 1..MaxOrders : CatchFailure(o, TRUE, TRUE)
    \/ \E o \in 1..MaxOrders : BackoffElapsed(o)

SpecCache == Init /\ [][NextCache]_vars

\* GET /api/orders/:orderId: the cached order, else the database row
QueryPath(o) == IF Cached(o).found THEN Cached(o).order ELSE db[o]

\* C32: the cache is consistent with the database: whenever no status update
\* is in progress (every worker step is a whole updateOrderStatus call), the
\* order returned by the query path carries the status of the database row,
\* which is the status of the last transition.
C32_QueryPathStatus ==
    \A o \in DOMAIN db :
        /\ QueryPath(o).status = db[o].status
        /\ db[o].status = statusLog[o][Len(statusLog[o])]

(***************************************************************************)
(* Swaps the venue refuses with an error of its own.  executeSwap returns  *)
(* {success: false, error} and the processor throws new Error(error).      *)
(***************************************************************************)
\* the errors the README lists under Permanent Failures (No Retry)
PermanentErrors ==
    {"Invalid input", "Insufficient balance", "Slippage exceeded",
     "Smart contract revert"}

ExecuteSwapRejected(o, error) ==
    /\ o \in DOMAIN jobs
    /\ jobs[o].state = "active" /\ jobs[o].pc = "swap"
    /\ Throw(o, error)
    /\ UNCHANGED <<aggVars, dbVars, cacheVars, rateVars, waitList, swaps, published,
                   wsVars, httpVars, dbFaults>>

NextPermanent ==
    \/ SubmitOrder
    \/ \E o \in 1..MaxOrders : StartJob(o)
    \/ \E o \in 1..MaxOrders : WriteRouting(o, TRUE)
    \/ \E o \in 1..MaxOrders, r \in VenueResult(RAYDIUM), m \in VenueResult(METEORA) :
          Aggregate(o, r, m, TRUE)
    \/ \E o \in 1..MaxOrders : WriteBuilding(o, TRUE)
    \/ \E o \in 1..MaxOrders, success \in BOOLEAN : ExecuteSwap(o, success)
    \/ \E o \in 1..MaxOrders, error \in PermanentErrors : ExecuteSwapRejected(o, error)
    \/ \E o \in 1..MaxOrders : WriteSubmitted(o, TRUE)
    \/ \E o \in 1..MaxOrders : WriteConfirmed(o, TRUE)
    \/ \E o \in 1..MaxOrders : CatchFailure(o, TRUE, TRUE)
    \/ \E o \in 1..MaxOrders : BackoffElapsed(o)

SpecPermanent == Init /\ [][NextPermanent]_vars

\* C33: an error the README classifies as permanent is not retried: an
\* attempt recorded with such an error is the order's last attempt, the job
\* has failed and the order is FAILED.
C33_PermanentNotRetried ==
    \A o \in DOMAIN jobs :
        \A k \in 1..Len(retry_logs[o]) :
            retry_logs[o][k].errorMessage \in PermanentErrors =>
                /\ k = Len(retry_logs[o])
                /\ jobs[o].attemptsMade = k
                /\ jobs[o].state = "failed"
                /\ db[o].status = FAILED

\* C34: CONFIRMED and FAILED are absorbing and mutually exclusive: in the
\* history of status writes of an order a terminal status occurs only as the
\* last write, so nothing is written after it and no history holds both; and
\* a terminal stored status is the last status written.
C34_TerminalAbsorbing ==
    \A o \in DOMAIN statusLog :
        /\ \A i \in 1..(Len(statusLog[o]) - 1) : statusLog[o][i] \notin Terminal
        /\ db[o].status \in Terminal => db[o].status = statusLog[o][Len(statusLog[o])]
        /\ Cached(o).found /\ Cached(o).order.status \in Terminal
              => Cached(o).order.status = statusLog[o][Len(statusLog[o])]

C34_Witness ==
    \E o \in DOMAIN statusLog :
        /\ db[o].status = FAILED
        /\ Count(statusLog[o], SUBMITTED) = 0
        /\ Count(statusLog[o], BUILDING) = 2

\* C35: an order is settled at most once, whatever fails afterwards: the
\* number of successful executeSwap calls made for an order never exceeds one.
C35_SettledAtMostOnce ==
    \A o \in DOMAIN swaps : swaps[o] <= 1

\* C36: a LIMIT order goes on to BUILDING and to its swap only in an attempt
\* whose selected quote's output is at least the order's target; an attempt
\* whose best quote is below the target ends in the catch block before any
\* BUILDING write or swap of that attempt, and is recorded and counted like
\* any other failed attempt.
C36_LimitTargetGate ==
    \A o \in DOMAIN jobs :
        jobs[o].order.type = LIMIT =>
            /\ jobs[o].pc \in {"building", "swap", "submitted", "confirmed"} =>
                  /\ jobs[o].quote.ok
                  /\ jobs[o].quote.outputAmount >= BigInt(jobs[o].order.outputAmount)
            /\ (jobs[o].pc = "catch" /\ jobs[o].error = "Target price not met") =>
                  /\ db[o].status = ROUTING
                  /\ jobs[o].signature = 0
                  /\ Count(statusLog[o], ROUTING) = jobs[o].attemptsMade + 1
                  /\ Count(statusLog[o], BUILDING) <= jobs[o].attemptsMade
            /\ \A k \in 1..Len(retry_logs[o]) :
                  retry_logs[o][k].errorMessage = "Target price not met" =>
                      /\ retry_logs[o][k].attemptNumber = k
                      /\ jobs[o].attemptsMade >= k
                      /\ k = maxAttempts => db[o].status = FAILED
            /\ swaps[o] <= Count(statusLog[o], BUILDING)

C36_Witness ==
    \E o \in DOMAIN jobs :
        /\ jobs[o].order.type = LIMIT
        /\ Len(retry_logs[o]) = 1
        /\ retry_logs[o][1].errorMessage = "Target price not met"
        /\ jobs[o].pc = "swap"
        /\ jobs[o].quote.outputAmount = BigInt(jobs[o].order.outputAmount)

\* C37: wsConnections holds only open sockets: a connection that has closed
\* is in no entry of the map, and every entry of the map holds at least one
\* open connection.
C37_OnlyOpenSocketsTracked ==
    /\ \A c \in 1..MaxConns :
          conns[c].state = "closed" =>
              \A orderId \in DOMAIN wsConnections : c \notin wsConnections[orderId]
    /\ \A orderId \in DOMAIN wsConnections :
          \E c \in wsConnections[orderId] : conns[c].state = "open"

(***************************************************************************)
(* The order stream with the worker's events delivered through             *)
(* broadcastOrderUpdate, and the handler's awaited lookup made visible: the *)
(* lookup answers in one step and the handler resumes in a later one.      *)
(***************************************************************************)
Relayed(orderId) == IF orderId \in DOMAIN relayed THEN relayed[orderId] ELSE 0

\* broadcastOrderUpdate: the message is sent on every connection of
\* wsConnections[orderId]; nothing happens when the order has no entry
broadcastOrderUpdate(orderId, message) ==
    conns' = [c \in DOMAIN conns |->
                 IF orderId \in DOMAIN wsConnections /\ c \in wsConnections[orderId]
                 THEN Send(conns[c], message)
                 ELSE conns[c]]

\* the worker's events of an order are passed to broadcastOrderUpdate one by
\* one, in the order the worker produced them ("this should be called from
\* the worker when order status changes")
RelayEvent(orderId) ==
    /\ orderId \in DOMAIN published
    /\ Relayed(orderId) < Len(published[orderId])
    /\ broadcastOrderUpdate(orderId, published[orderId][Relayed(orderId) + 1])
    /\ relayed' = Put(relayed, orderId, Relayed(orderId) + 1)
    /\ UNCHANGED <<aggVars, dbVars, cacheVars, rateVars, queueVars, swaps, published,
                   wsConnections, httpVars, dbFaults>>

\* the awaited lookup answers: the cache, then the database
WsLookup(c) ==
    /\ conns[c].pending
    /\ conns[c].looked = <<>>
    /\ LET orderId == conns[c].orderId
           got == getOrder(orderId, TRUE)
           status == IF got.found THEN got.order.status
                     ELSE IF orderId \in DOMAIN db THEN db[orderId].status
                     ELSE ""
       IN conns' = [conns EXCEPT ![c].looked = <<status>>]
    /\ UNCHANGED <<aggVars, dbVars, cacheVars, rateVars, queueVars, swaps, published,
                   wsConnections, relayed, httpVars, dbFaults>>

\* the handler resumes with the order it was given: the snapshot is sent and
\* the listeners are registered, or the error is sent, the socket is closed
\* and the handler returns
WsResume(c) ==
    /\ conns[c].pending
    /\ conns[c].looked # <<>>
    /\ LET status == conns[c].looked[1]
           conn == [conns[c] EXCEPT !.pending = FALSE, !.looked = <<>>]
       IN conns' = [conns EXCEPT ![c] =
             IF status # ""
             THEN [Send(conn, WSMessage("ORDER_STATUS", status)) EXCEPT !.onClose = TRUE]
             ELSE [Send(conn, WSMessage("ERROR", "Order not found"))
                      EXCEPT !.state = "closed",
                             !.closedBy = IF conn.state = "open" THEN "server" ELSE @]]
    /\ UNCHANGED <<aggVars, dbVars, cacheVars, rateVars, queueVars, swaps, published,
                   wsConnections, relayed, httpVars, dbFaults>>

NextBroadcast ==
    \/ SubmitStreamOrder
    \/ \E o \in 1..MaxOrders : StartJob(o)
    \/ \E o \in 1..MaxOrders : WriteRouting(o, TRUE)
    \/ \E o \in 1..MaxOrders :
          Aggregate(o, SteadyQuote(RAYDIUM), SteadyQuote(METEORA), TRUE)
    \/ \E o \in 1..MaxOrders : WriteBuilding(o, TRUE)
    \/ \E o \in 1..MaxOrders : ExecuteSwap(o, TRUE)
    \/ \E o \in 1..MaxOrders : WriteSubmitted(o, TRUE)
    \/ \E o \in 1..MaxOrders : WriteConfirmed(o, TRUE)
    \/ \E o \in 1..MaxOrders : RelayEvent(o)
    \/ \E c \in 1..MaxConns, orderId \in 1..MaxOrders : WsConnect(c, orderId)
    \/ \E c \in 1..MaxConns : WsLookup(c)
    \/ \E c \in 1..MaxConns : WsResume(c)
    \/ \E c \in 1..MaxConns : WsClientClose(c)

SpecBroadcast == Init /\ [][NextBroadcast]_vars

C39_RequestFieldsKept ==
    \A o \in DOMAIN jobs :
        /\ QueryPath(o).inputAmount = jobs[o].order.inputAmount
        /\ QueryPath(o).outputAmount = jobs[o].order.outputAmount
        /\ QueryPath(o).slippageBps = jobs[o].order.slippageBps
        /\ QueryPath(o).type = jobs[o].order.type
        /\ QueryPath(o).side = jobs[o].order.side

\* C40: the order's attempt count tracks its attempts: in every state the
\* stored retryCount of an order is the number of failed attempts the worker
\* has recorded for it, in the row and in the order the query path returns.
C40_RetryCountTracksAttempts ==
    \A o \in DOMAIN db :
        /\ db[o].retryCount = Len(retry_logs[o])
        /\ QueryPath(o).retryCount = Len(retry_logs[o])

====
